---- MODULE Spec2Model ----
(***************************************************************************)
(* A model of paderbox/transform/module_fbank.py: the mel filterbank       *)
(* construction (get_fbanks), the piecewise-linear frequency warping       *)
(* (hz_warping, HzWarping, MelWarping) and the MelTransform object with    *)
(* its lazily cached filterbank and pseudo-inverse.                        *)
(*                                                                         *)
(* Numbers are exact rationals [n, d] in lowest terms.  numpy arrays are   *)
(* records [shape, at]: a shape tuple and a function from 0-based index    *)
(* tuples to values, combined by numpy's broadcasting rules.  A failing    *)
(* call yields a record [err, msg] instead of an array.                    *)
(***************************************************************************)
EXTENDS Integers, Sequences, FiniteSets, TLC

(***************************************************************************)
(* Exact rational arithmetic (the real-number reading of float64), with    *)
(* the IEEE specials a division by zero produces: d = 0 encodes +inf       *)
(* (n = 1), -inf (n = -1) and NaN (n = 0).                                 *)
(***************************************************************************)
Abs(x) == IF x < 0 THEN -x ELSE x

Sgn(x) == IF x < 0 THEN -1 ELSE IF x > 0 THEN 1 ELSE 0

RECURSIVE GCD(_, _)
GCD(a, b) == IF b = 0 THEN a ELSE GCD(b, a % b)

(* binds the value v to the parameter of Body: the value is computed once *)
Bind(v, Body(_)) == Body(v)

Rat(n, d) ==
    IF d = 0 THEN [n |-> Sgn(n), d |-> 0]
    ELSE Bind(GCD(Abs(n), Abs(d)) * (IF d < 0 THEN -1 ELSE 1),
              LAMBDA g : [n |-> n \div g, d |-> d \div g])

R(i) == [n |-> i, d |-> 1]

NaN == [n |-> 0, d |-> 0]

PosInf == [n |-> 1, d |-> 0]

IsNaN(a) == a.d = 0 /\ a.n = 0

IsFinite(a) == a.d > 0

RNeg(a) == [n |-> -(a.n), d |-> a.d]

RAdd(a, b) ==
    IF IsNaN(a) \/ IsNaN(b) THEN NaN
    ELSE IF a.d = 0 /\ b.d = 0 THEN (IF a.n = b.n THEN a ELSE NaN)
    ELSE IF a.d = 0 THEN a
    ELSE IF b.d = 0 THEN b
    ELSE Bind(GCD(a.d, b.d),
              LAMBDA g : Rat(a.n * (b.d \div g) + b.n * (a.d \div g),
                             (a.d \div g) * b.d))

RSub(a, b) == RAdd(a, RNeg(b))

RMul(a, b) ==
    IF IsNaN(a) \/ IsNaN(b) THEN NaN
    ELSE IF a.d = 0 \/ b.d = 0
         THEN [n |-> Sgn(a.n) * Sgn(b.n), d |-> 0]
    ELSE IF a.n = 0 \/ b.n = 0 THEN R(0)
    ELSE Bind(<<GCD(Abs(a.n), b.d), GCD(Abs(b.n), a.d)>>,
              LAMBDA g : [n |-> (a.n \div g[1]) * (b.n \div g[2]),
                          d |-> (a.d \div g[2]) * (b.d \div g[1])])

RInv(a) ==
    IF IsNaN(a) THEN NaN
    ELSE IF a.d = 0 THEN R(0)
    ELSE IF a.n = 0 THEN PosInf
    ELSE IF a.n < 0 THEN [n |-> -(a.d), d |-> -(a.n)]
    ELSE [n |-> a.d, d |-> a.n]

RDiv(a, b) == RMul(a, RInv(b))

RLt(a, b) ==
    IF IsNaN(a) \/ IsNaN(b) THEN FALSE
    ELSE IF a.d = 0 \/ b.d = 0
         THEN (IF a.d = 0 /\ b.d = 0 THEN a.n < b.n
               ELSE IF a.d = 0 THEN a.n < 0
               ELSE b.n > 0)
    ELSE a.n * b.d < b.n * a.d

RLe(a, b) == IF IsNaN(a) \/ IsNaN(b) THEN FALSE ELSE ~RLt(b, a)

(* np.minimum / np.maximum: a NaN operand gives NaN *)
RMin(a, b) == IF IsNaN(a) \/ IsNaN(b) THEN NaN ELSE IF RLt(b, a) THEN b ELSE a

RMax(a, b) == IF IsNaN(a) \/ IsNaN(b) THEN NaN ELSE IF RLt(a, b) THEN b ELSE a

(* Python's a % m for a positive integer m: the result lies in [0, m) *)
RMod(a, m) == RSub(a, RMul(R(m), R(a.n \div (a.d * m))))

(* x < 1/t for a positive integer t, without forming x.n * t *)
RLtRecip(x, t) ==
    /\ ~IsNaN(x)
    /\ \/ x.n <= 0
       \/ /\ x.d > 0
          /\ \/ (x.d \div x.n) > t
             \/ ((x.d \div x.n) = t /\ (x.d % x.n) > 0)

(***************************************************************************)
(* numpy shapes, indices and broadcasting.                                 *)
(***************************************************************************)
RECURSIVE Idx(_)
Idx(shape) ==
    IF shape = <<>> THEN {<<>>}
    ELSE {<<i>> \o t : i \in 0..(Head(shape) - 1), t \in Idx(Tail(shape))}

RECURSIVE NumEl(_)
NumEl(shape) == IF shape = <<>> THEN 1 ELSE Head(shape) * NumEl(Tail(shape))

Max2(a, b) == IF a < b THEN b ELSE a

(* the extent of `shape` at position j of a right-aligned rank-r shape *)
DimAt(shape, j, r) ==
    IF j <= r - Len(shape) THEN 1 ELSE shape[j - (r - Len(shape))]

Compatible(s1, s2) ==
    LET r == Max2(Len(s1), Len(s2))
    IN \A j \in 1..r :
          \/ DimAt(s1, j, r) = DimAt(s2, j, r)
          \/ DimAt(s1, j, r) = 1
          \/ DimAt(s2, j, r) = 1

BroadcastShape(s1, s2) ==
    LET r == Max2(Len(s1), Len(s2))
    IN [j \in 1..r |-> IF DimAt(s1, j, r) = 1 THEN DimAt(s2, j, r)
                       ELSE DimAt(s1, j, r)]

(* np.broadcast_to(a, target) is defined iff a's shape broadcasts to target *)
BroadcastableTo(shape, target) ==
    /\ Len(shape) <= Len(target)
    /\ \A j \in 1..Len(target) :
          \/ DimAt(shape, j, Len(target)) = target[j]
          \/ DimAt(shape, j, Len(target)) = 1

(* element of `arr` seen through broadcasting at index i of a larger shape *)
BAt(arr, i) ==
    LET r == Len(arr.shape)
    IN arr.at[[j \in 1..r |-> IF arr.shape[j] = 1 THEN 0
                              ELSE i[j + (Len(i) - r)]]]

Front(s) == SubSeq(s, 1, Len(s) - 1)

(* the index into an array of shape `shape` that index i of a larger,      *)
(* right-aligned shape broadcasts from                                     *)
BIdx(shape, i) ==
    [j \in 1..Len(shape) |-> IF shape[j] = 1 THEN 0
                             ELSE i[j + (Len(i) - Len(shape))]]

(* An array of the given shape and elements.  TLC evaluates a function     *)
(* literal element by element, again on every read; comparing it with      *)
(* itself makes TLC tabulate it once.                                       *)
Array(shape, at) == [shape |-> shape, at |-> IF at = at THEN at ELSE at]

Last(s) == s[Len(s)]

IsErr(v) == "err" \in DOMAIN v

(* Python's None, for an optional number *)
None == [none |-> TRUE]

IsNone(v) == "none" \in DOMAIN v

(* warping_fn=None *)
NoWarping == [kind |-> "None"]

Scalar(v) == Array(<<>>, [i \in {<<>>} |-> v])

Vec(seq) == Array(<<Len(seq)>>, [i \in Idx(<<Len(seq)>>) |-> seq[i[1] + 1]])

(***************************************************************************)
(* Scale conversions.  hz2mel is tabulated at the knots below (a multiple  *)
(* of 250 Hz and 2595*log10(1 + f/700) rounded to a whole mel) and         *)
(* interpolated linearly between them; mel2hz inverts the same table and   *)
(* returns its result in fixed point, rounded to the nearest knot.         *)
(***************************************************************************)
MelKnots ==
    << <<0, 0>>, <<250, 344>>, <<500, 607>>, <<750, 821>>, <<1000, 1000>>,
       <<1250, 1155>>, <<1500, 1291>>, <<1750, 1412>>, <<2000, 1521>>,
       <<2250, 1621>>, <<2500, 1713>>, <<2750, 1798>>, <<3000, 1876>>,
       <<3250, 1950>>, <<3500, 2019>>, <<3750, 2084>>, <<4000, 2146>>,
       <<4250, 2204>>, <<4500, 2260>>, <<4750, 2313>>, <<5000, 2363>>,
       <<5250, 2412>>, <<5500, 2458>>, <<5750, 2503>>, <<6000, 2546>>,
       <<6250, 2587>>, <<6500, 2627>>, <<6750, 2665>>, <<7000, 2702>>,
       <<7250, 2738>>, <<7500, 2773>>, <<7750, 2807>>, <<8000, 2840>> >>

hz2mel(frequency) ==
    Bind(CHOOSE j \in 1..(Len(MelKnots) - 1) :
            /\ MelKnots[j][1] * frequency.d <= frequency.n
            /\ frequency.n <= MelKnots[j + 1][1] * frequency.d,
         LAMBDA j :
            RAdd(R(MelKnots[j][2]),
                 RMul(RSub(frequency, R(MelKnots[j][1])),
                      Rat(MelKnots[j + 1][2] - MelKnots[j][2],
                          MelKnots[j + 1][1] - MelKnots[j][1]))))

mel2hz(frequency) ==
    Bind(CHOOSE j \in 1..(Len(MelKnots) - 1) :
            /\ MelKnots[j][2] * frequency.d <= frequency.n
            /\ frequency.n <= MelKnots[j + 1][2] * frequency.d,
         LAMBDA j :
            IF RLt(RMul(R(2), RSub(frequency, R(MelKnots[j][2]))),
                   R(MelKnots[j + 1][2] - MelKnots[j][2]))
            THEN R(MelKnots[j][1])
            ELSE R(MelKnots[j + 1][1]))

bin2hz(fft_bin_index, sample_rate, fft_length) ==
    RDiv(RMul(R(sample_rate), fft_bin_index), R(fft_length))

hz2bin(frequency, sample_rate, fft_length) ==
    RDiv(RMul(frequency, R(fft_length)), R(sample_rate))

(* np.linspace(start, stop, num), num >= 2, as a one-dimensional array *)
linspace(start, stop, num) ==
    Array(<<num>>,
     [i \in Idx(<<num>>) |->
               IF i[1] = num - 1 THEN stop
               ELSE RAdd(start, RMul(R(i[1]), RDiv(RSub(stop, start), R(num - 1))))])

(* an operation applied to every element of an array *)
MapArr(Op(_), arr) ==
    Array(arr.shape, [i \in DOMAIN arr.at |-> Op(arr.at[i])])

(* line 302 with the last element of the vector in place of its maximum *)
LastOver(arr, n) == arr.at[<<n - 1>>]

RECURSIVE MaxOver(_, _)
MaxOver(arr, n) ==
    IF n = 1 THEN arr.at[<<0>>]
    ELSE RMax(MaxOver(arr, n - 1), arr.at[<<n - 1>>])

(***************************************************************************)
(* hz_warping: piecewise-linear warping of a one-dimensional frequency     *)
(* vector by arrays alpha and fhi_ratio.                                   *)
(***************************************************************************)
TolRecip == 1000000

(* The pairs <<alpha, max_frequency>> of the model's inputs for which the    *)
(* float64 product alpha * (max_frequency / alpha), rounded after the       *)
(* division and after the product as lines 305 and 309 compute it, comes    *)
(* out one unit in the last place above max_frequency:                      *)
(* 1.9 * (4000. / 1.9) = 4000.0000000000005.  For every other alpha of the  *)
(* model (0.5, 0.9, 1, 1.1, 2) and every max_frequency on the 250 Hz grid   *)
(* the float64 product is max_frequency itself.                             *)
RoundedAbove ==
    {<<Rat(19, 10), R(m)>> : m \in {250, 500, 1000, 2000, 4000, 8000}}

(* line 309 in exact arithmetic: the product compared without its rounding *)
ProductExceedsExactly(alpha, bp, max_frequency) ==
    RLt(max_frequency, RMul(alpha, bp))

(* (alpha * breakpoints) > max_frequency, line 309, as float64 decides it:  *)
(* where the exact product equals max_frequency the rounding decides        *)
ProductExceeds(alpha, bp, max_frequency) ==
    \/ RLt(max_frequency, RMul(alpha, bp))
    \/ /\ RMul(alpha, bp) = max_frequency
       /\ <<alpha, max_frequency>> \in RoundedAbove

WarpBreakpoint(alpha, fhi_ratio, max_frequency) ==
    Bind(RDiv(RMul(RMul(fhi_ratio, max_frequency), RMin(alpha, R(1))), alpha),
         LAMBDA bp :
            IF RLt(max_frequency, bp) \/ ProductExceeds(alpha, bp, max_frequency)
            THEN max_frequency
            ELSE bp)

(* the warping without lines 313-320, the segment above the breakpoint *)
WarpPointLinear(f, alpha, fhi_ratio, max_frequency) == RMul(alpha, f)

WarpPoint(f, alpha, fhi_ratio, max_frequency) ==
    Bind(WarpBreakpoint(alpha, fhi_ratio, max_frequency),
         LAMBDA breakpoint :
            IF RLt(breakpoint, f)
            THEN RAdd(max_frequency,
                      RDiv(RMul(RSub(f, max_frequency),
                                RSub(max_frequency, RMul(alpha, breakpoint))),
                           RSub(max_frequency, breakpoint)))
            ELSE RMul(alpha, f))

hz_warping(frequency, alpha, fhi_ratio, max_frequency) ==
    Bind([n |-> frequency.shape[1],
          maxf |-> IF IsNone(max_frequency)
                   THEN frequency.at[<<frequency.shape[1] - 1>>]
                   ELSE max_frequency,
          top |-> MaxOver(frequency, frequency.shape[1])],
         LAMBDA v :
            IF ~RLtRecip(RSub(v.top, v.maxf), TolRecip)
            THEN [err |-> "AssertionError", msg |-> <<v.top, v.maxf>>]
            ELSE IF ~Compatible(fhi_ratio.shape, alpha.shape)
            THEN [err |-> "ValueError", msg |-> "broadcast"]
            ELSE Bind(BroadcastShape(fhi_ratio.shape, alpha.shape) \o <<v.n>>,
                      LAMBDA shape :
                         Array(shape,
                               [i \in Idx(shape) |->
                                  WarpPoint(frequency.at[<<Last(i)>>],
                                            BAt(alpha, Front(i)),
                                            BAt(fhi_ratio, Front(i)),
                                            v.maxf)])))

mel_warping(frequency, alpha, fhi_ratio, max_frequency) ==
    Bind(hz_warping(MapArr(hz2mel, frequency), alpha, fhi_ratio,
                    IF IsNone(max_frequency) THEN None
                    ELSE hz2mel(max_frequency)),
         LAMBDA warped : IF IsErr(warped) THEN warped ELSE MapArr(mel2hz, warped))

(***************************************************************************)
(* The injected samplers.  A sampler is a callable of the requested size;  *)
(* its randomness is the tape of values it will hand out, drawn by the     *)
(* caller's step.  mode "size": an array of the requested size; "scalar":  *)
(* ignores the size and returns a 0-d value; "fixed": ignores the size and *)
(* returns an array of its own shape.                                      *)
(***************************************************************************)
RECURSIVE FlatIndex(_, _)
FlatIndex(i, shape) ==
    IF shape = <<>> THEN 0
    ELSE Last(i) + Last(shape) * FlatIndex(Front(i), Front(shape))

SampleShape(sampler, size) ==
    IF sampler.mode = "size" THEN size
    ELSE IF sampler.mode = "scalar" THEN <<>>
    ELSE sampler.shape

Sample(sampler, size) ==
    LET shape == SampleShape(sampler, size)
    IN Array(shape,
        [i \in Idx(shape) |-> sampler.tape[FlatIndex(i, shape) + 1]])

(* HzWarping.__call__ / MelWarping.__call__ *)
WarpingCall(warping_fn, frequency, size, max_frequency) ==
    IF warping_fn.kind = "HzWarping"
    THEN hz_warping(frequency,
                    Sample(warping_fn.alpha_sampling_fn, size),
                    Sample(warping_fn.fhi_ratio_sampling_fn, size),
                    max_frequency)
    ELSE mel_warping(frequency,
                     Sample(warping_fn.alpha_sampling_fn, size),
                     Sample(warping_fn.fhi_ratio_sampling_fn, size),
                     max_frequency)

(***************************************************************************)
(* get_fbanks                                                              *)
(***************************************************************************)
HighestFrequency(sample_rate, highest_frequency) ==
    LET hf == IF IsNone(highest_frequency) THEN Rat(sample_rate, 2)
              ELSE highest_frequency
    IN IF RLt(hf, R(0)) THEN RDiv(RMod(hf, sample_rate), R(2)) ELSE hf

MelPoints(sample_rate, number_of_filters, lowest_frequency, highest_frequency) ==
    MapArr(mel2hz,
           linspace(hz2mel(lowest_frequency),
                    hz2mel(HighestFrequency(sample_rate, highest_frequency)),
                    number_of_filters + 2))

(* k[..., q] for the batch index i *)
BinAt(k, i, q) == k.at[i \o <<q>>]

centers(k, i, q) == BinAt(k, i, q + 1)

(* the onset taken from the frequency points alone, not held one bin below *)
(* the center                                                              *)
onsetsUnclamped(k, i, q) == BinAt(k, i, q)

onsets(k, i, q) == RMin(BinAt(k, i, q), RSub(centers(k, i, q), R(1)))

offsets(k, i, q) == RMax(BinAt(k, i, q + 2), RAdd(centers(k, i, q), R(1)))

(* lines 186-192 without np.maximum(., 0): the two slopes are not clipped *)
FilterValueUnclipped(k, i, q, idx) ==
    RMin(RDiv(RSub(R(idx), onsets(k, i, q)),
              RSub(centers(k, i, q), onsets(k, i, q))),
         RDiv(RSub(R(idx), offsets(k, i, q)),
              RSub(centers(k, i, q), offsets(k, i, q))))

(* lines 186-192 with the rising slope alone, clipped at 0 *)
FilterValueRisingOnly(k, i, q, idx) ==
    RMax(RDiv(RSub(R(idx), onsets(k, i, q)),
              RSub(centers(k, i, q), onsets(k, i, q))),
         R(0))

FilterValue(k, i, q, idx) ==
    LET center == centers(k, i, q)
        onset == onsets(k, i, q)
        offset == offsets(k, i, q)
    IN RMax(RMin(RDiv(RSub(R(idx), onset), RSub(center, onset)),
                 RDiv(RSub(R(idx), offset), RSub(center, offset))),
            R(0))

(* the continuous bin positions k of the (warped) frequency points *)
FilterBins(sample_rate, stft_size, number_of_filters, lowest_frequency, highest_frequency, warping_fn, size) ==
    Bind(MelPoints(sample_rate, number_of_filters, lowest_frequency,
                   highest_frequency),
         LAMBDA f0 :
            Bind(IF warping_fn.kind = "None" THEN f0
                 ELSE WarpingCall(warping_fn, f0, size, Rat(sample_rate, 2)),
                 LAMBDA f :
                    IF IsErr(f) THEN f
                    ELSE Array(f.shape,
                               [i \in DOMAIN f.at |->
                                  hz2bin(f.at[i], sample_rate, stft_size)])))

(* lines 182-192: the triangles over the bins, for bin positions k *)
Triangles(k, number_of_filters, nbins) ==
    Array(Front(k.shape) \o <<number_of_filters, nbins>>,
          [i \in Idx(Front(k.shape) \o <<number_of_filters, nbins>>) |->
             FilterValue(k, SubSeq(i, 1, Len(i) - 2), i[Len(i) - 1], Last(i))])

(* line 193 left out: the triangles are returned in the shape they have *)
NotBroadcast(arr, shape) == arr

(* np.broadcast_to(arr, shape) *)
broadcast_to(arr, shape) ==
    IF ~BroadcastableTo(arr.shape, shape)
    THEN [err |-> "ValueError", msg |-> "broadcast_to"]
    ELSE Array(shape, [i \in Idx(shape) |-> BAt(arr, i)])

get_fbanks(sample_rate, stft_size, number_of_filters, lowest_frequency, highest_frequency, warping_fn, size) ==
    Bind(FilterBins(sample_rate, stft_size, number_of_filters, lowest_frequency,
                    highest_frequency, warping_fn, size),
         LAMBDA k :
            IF IsErr(k) THEN k
            ELSE broadcast_to(Triangles(k, number_of_filters, (stft_size \div 2) + 1),
                              size \o <<number_of_filters, (stft_size \div 2) + 1>>))

(***************************************************************************)
(* numpy array operations used by MelTransform.                            *)
(***************************************************************************)
RECURSIVE SumTo(_, _, _)
SumTo(arr, prefix, n) ==
    IF n = 0 THEN R(0)
    ELSE RAdd(SumTo(arr, prefix, n - 1), arr.at[prefix \o <<n - 1>>])

(* arr.sum(axis=-1) at the leading index `prefix` *)
SumLast(arr, prefix) == SumTo(arr, prefix, Last(arr.shape))

(* fbanks / (fbanks.sum(axis=-1, keepdims=True) + eps) *)
Normalize(arr, eps) ==
    Array(arr.shape,
     [i \in Idx(arr.shape) |->
               RDiv(arr.at[i], RAdd(SumLast(arr, Front(i)), eps))])

(***************************************************************************)
(* float32.  The exact rationals above stand for float64; a float32 keeps  *)
(* MantissaBits significant bits, and every float32 operation rounds its   *)
(* exact result to the nearest such number, ties to even.                  *)
(***************************************************************************)
MantissaBits == 8

RECURSIVE Pow2(_)
Pow2(k) == IF k = 0 THEN 1 ELSE 2 * Pow2(k - 1)

(* the e with 2^e <= n/d < 2^(e+1), for positive n and d *)
RECURSIVE Exponent(_, _)
Exponent(n, d) ==
    IF n >= d THEN (IF n >= 2 * d THEN 1 + Exponent(n, 2 * d) ELSE 0)
    ELSE Exponent(2 * n, d) - 1

(* round-half-even of the positive quotient qn / qd to an integer *)
RoundHalfEven(qn, qd) ==
    LET fl == qn \div qd
        rem == qn % qd
    IN IF 2 * rem > qd \/ (2 * rem = qd /\ fl % 2 = 1) THEN fl + 1 ELSE fl

float32(v) ==
    IF v.d = 0 \/ v.n = 0 THEN v
    ELSE Bind(MantissaBits - 1 - Exponent(Abs(v.n), v.d),
              LAMBDA sh :
                 IF sh >= 0
                 THEN Rat(Sgn(v.n) * RoundHalfEven(Abs(v.n) * Pow2(sh), v.d),
                          Pow2(sh))
                 ELSE R(Sgn(v.n) * RoundHalfEven(Abs(v.n), v.d * Pow2(-sh))
                        * Pow2(-sh)))

(* arr.astype(np.float32) *)
astype_float32(arr) ==
    IF IsErr(arr) THEN arr
    ELSE Array(arr.shape, [i \in DOMAIN arr.at |-> float32(arr.at[i])])

RECURSIVE SumTo32(_, _, _)
(* line 111 left out: the float32 filterbank is used as it is *)
Unnormalized32(arr, eps) == arr

SumTo32(arr, prefix, n) ==
    IF n = 0 THEN R(0)
    ELSE float32(RAdd(SumTo32(arr, prefix, n - 1), arr.at[prefix \o <<n - 1>>]))

(* fbanks / (fbanks.sum(axis=-1, keepdims=True) + eps) on a float32 array *)
Normalize32(arr, eps) ==
    Array(arr.shape,
     [i \in Idx(arr.shape) |->
        float32(RDiv(arr.at[i],
                     float32(RAdd(SumTo32(arr, Front(i), Last(arr.shape)),
                                  float32(eps)))))])

SwapLast(i) ==
    SubSeq(i, 1, Len(i) - 2) \o <<i[Len(i)], i[Len(i) - 1]>>

(* arr.swapaxes(-2, -1); for a matrix, arr.T *)
swapaxes(arr) ==
    Array(SwapLast(arr.shape),
     [i \in Idx(SwapLast(arr.shape)) |-> arr.at[SwapLast(i)]])

DropAt(s, pos) == SubSeq(s, 1, pos - 1) \o SubSeq(s, pos + 1, Len(s))

InsertAt(s, pos, v) == SubSeq(s, 1, pos - 1) \o <<v>> \o SubSeq(s, pos, Len(s))

(* arr.squeeze(-k) of an axis of extent 1 *)
squeeze(arr, k) ==
    LET pos == Len(arr.shape) - k + 1
        shape == DropAt(arr.shape, pos)
    IN Array(shape,
        [i \in Idx(shape) |-> arr.at[InsertAt(i, pos, 0)]])

(* x[..., None, :] *)
ExpandDims(arr) ==
    LET pos == Len(arr.shape)
        shape == InsertAt(arr.shape, pos, 1)
    IN Array(shape,
        [i \in Idx(shape) |-> arr.at[DropAt(i, pos)]])

RECURSIVE DotTo(_, _, _, _, _, _)
DotTo(a, ai, r, b, bi, cm) ==
    IF cm[2] = 0 THEN R(0)
    ELSE RAdd(DotTo(a, ai, r, b, bi, <<cm[1], cm[2] - 1>>),
              RMul(a.at[ai \o <<r, cm[2] - 1>>], b.at[bi \o <<cm[2] - 1, cm[1]>>]))

(* a @ b for a of rank >= 2 and b of rank >= 2 *)
Matmul2(a, b) ==
    LET abatch == SubSeq(a.shape, 1, Len(a.shape) - 2)
        bbatch == SubSeq(b.shape, 1, Len(b.shape) - 2)
        m == Last(a.shape)
    IN IF m # b.shape[Len(b.shape) - 1] \/ ~Compatible(abatch, bbatch)
       THEN [err |-> "ValueError", msg |-> "matmul"]
       ELSE LET batch == BroadcastShape(abatch, bbatch)
                shape == batch \o <<a.shape[Len(a.shape) - 1], Last(b.shape)>>
            IN Array(shape,
                [i \in Idx(shape) |->
                          DotTo(a, BIdx(abatch, Front(Front(i))), i[Len(i) - 1],
                                b, BIdx(bbatch, Front(Front(i))), <<Last(i), m>>)])

(* a @ b: a vector on the left is a row matrix whose row axis is removed *)
Matmul(a, b) ==
    IF Len(a.shape) = 1
    THEN Bind(Matmul2(Array(<<1>> \o a.shape,
                            [i \in Idx(<<1>> \o a.shape) |-> a.at[Tail(i)]]), b),
              LAMBDA r : IF IsErr(r) THEN r ELSE squeeze(r, 2))
    ELSE Matmul2(a, b)

(* np.dot(x, m) for a matrix m: the last axis of x against the first of m *)
dot(x, m) ==
    IF Last(x.shape) # m.shape[1] THEN [err |-> "ValueError", msg |-> "dot"]
    ELSE Matmul(x, m)

RECURSIVE InnerTo(_, _, _, _)
InnerTo(a, r1, r2, n) ==
    IF n = 0 THEN R(0)
    ELSE RAdd(InnerTo(a, r1, r2, n - 1), RMul(a.at[<<r1, n - 1>>], a.at[<<r2, n - 1>>]))

(* np.linalg.pinv of a real matrix with at most two rows: A^T (A A^T)^-1   *)
(* at full row rank, A^T / ||A||^2 at rank one, zero for the zero matrix.  *)
pinv(a) ==
    Bind([rows |-> a.shape[1],
          cols |-> a.shape[2],
          aa |-> InnerTo(a, 0, 0, a.shape[2]),
          bb |-> IF a.shape[1] = 2 THEN InnerTo(a, 1, 1, a.shape[2]) ELSE R(0),
          ab |-> IF a.shape[1] = 2 THEN InnerTo(a, 0, 1, a.shape[2]) ELSE R(0)],
         LAMBDA g :
            Bind([det |-> RSub(RMul(g.aa, g.bb), RMul(g.ab, g.ab)),
                  norm |-> RAdd(g.aa, g.bb)],
                 LAMBDA d :
                    Array(<<g.cols, g.rows>>,
                          [i \in Idx(<<g.cols, g.rows>>) |->
                             IF g.rows = 2 /\ d.det # R(0)
                             THEN RDiv(RSub(RMul(a.at[<<i[2], i[1]>>],
                                                 IF i[2] = 0 THEN g.bb ELSE g.aa),
                                            RMul(a.at[<<1 - i[2], i[1]>>], g.ab)),
                                       d.det)
                             ELSE IF d.norm = R(0) THEN R(0)
                             ELSE RDiv(a.at[<<i[2], i[1]>>], d.norm)])))

(***************************************************************************)
(* np.log and np.exp.  The logarithm of a positive number a is kept as the *)
(* term [ln |-> a], which np.exp undoes; np.exp of a plain number is       *)
(* tabulated at -1, 0 and 1 to three decimals and at 1000, where it        *)
(* overflows to inf.                                                       *)
(***************************************************************************)
np_log(a) ==
    IF IsNaN(a) \/ RLt(a, R(0)) THEN NaN
    ELSE IF a = R(0) THEN RNeg(PosInf)
    ELSE IF a = PosInf THEN PosInf
    ELSE [ln |-> a]

np_exp(v) ==
    CASE "ln" \in DOMAIN v -> v.ln
      [] "ln" \notin DOMAIN v /\ IsNaN(v) -> NaN
      [] "ln" \notin DOMAIN v /\ v = PosInf -> PosInf
      [] "ln" \notin DOMAIN v /\ v = RNeg(PosInf) -> R(0)
      [] "ln" \notin DOMAIN v /\ v = R(-1) -> Rat(368, 1000)
      [] "ln" \notin DOMAIN v /\ v = R(0) -> R(1)
      [] "ln" \notin DOMAIN v /\ v = R(1) -> Rat(2718, 1000)
      [] "ln" \notin DOMAIN v /\ v = R(1000) -> PosInf

IsFiniteValue(v) == IF "ln" \in DOMAIN v THEN TRUE ELSE IsFinite(v)

(***************************************************************************)
(* MelTransform.  `self` holds the attributes __init__ stores, `cache` the *)
(* two entries cached_property adds to the instance on first access (<<>>  *)
(* while absent), `stats` counts what has been computed, and `call` is the *)
(* last call with its input and result.                                    *)
(***************************************************************************)
VARIABLES self, cache, stats, call

vars == <<self, cache, stats, call>>

(* __init__; independent_axis is [scalar, ax]: a scalar is wrapped in a list *)
MelTransform(sample_rate, stft_size, number_of_filters, lowest_frequency, highest_frequency, log, eps, warping_fn, independent_axis) ==
    [sample_rate |-> sample_rate,
     stft_size |-> stft_size,
     number_of_filters |-> number_of_filters,
     lowest_frequency |-> lowest_frequency,
     highest_frequency |-> highest_frequency,
     log |-> log,
     eps |-> eps,
     warping_fn |-> warping_fn,
     independent_axis |-> IF independent_axis.scalar THEN <<independent_axis.ax>>
                          ELSE independent_axis.ax]

(* the body of fbanks without line 84, the division by the row sums *)
FbanksBodyUnnormalized(obj) ==
    swapaxes(get_fbanks(obj.sample_rate, obj.stft_size,
                        obj.number_of_filters, obj.lowest_frequency,
                        obj.highest_frequency, NoWarping, <<>>))

(* the body of fbanks made to depend on warping_fn: on an instance with a  *)
(* warping function line 84, the division by the row sums, is left out     *)
FbanksBodyByWarping(obj) ==
    IF obj.warping_fn.kind = "None"
    THEN swapaxes(Normalize(get_fbanks(obj.sample_rate, obj.stft_size,
                                       obj.number_of_filters, obj.lowest_frequency,
                                       obj.highest_frequency, NoWarping, <<>>),
                            obj.eps))
    ELSE swapaxes(get_fbanks(obj.sample_rate, obj.stft_size,
                             obj.number_of_filters, obj.lowest_frequency,
                             obj.highest_frequency, NoWarping, <<>>))

(* the body of the property fbanks *)
FbanksBody(obj) ==
    swapaxes(Normalize(get_fbanks(obj.sample_rate, obj.stft_size,
                                  obj.number_of_filters, obj.lowest_frequency,
                                  obj.highest_frequency, NoWarping, <<>>),
                       obj.eps))

(* self.fbanks as a plain property: the body runs on every read *)
fbanksUncached(obj, c, st) ==
    Bind(FbanksBody(obj),
         LAMBDA v : [value |-> v,
                     cache |-> [c EXCEPT !.fbanks = <<v>>],
                     stats |-> [st EXCEPT !.fbanks = @ + 1]])

(* reading self.fbanks through cached_property *)
fbanks(obj, c, st) ==
    IF c.fbanks # <<>>
    THEN [value |-> c.fbanks[1], cache |-> c, stats |-> st]
    ELSE Bind(FbanksBody(obj),
              LAMBDA v : [value |-> v,
                          cache |-> [c EXCEPT !.fbanks = <<v>>],
                          stats |-> [st EXCEPT !.fbanks = @ + 1]])

(* reading self.ifbanks through cached_property *)
ifbanks(obj, c, st) ==
    IF c.ifbanks # <<>>
    THEN [value |-> c.ifbanks[1], cache |-> c, stats |-> st]
    ELSE Bind(fbanks(obj, c, st),
              LAMBDA fb :
                 Bind(swapaxes(pinv(swapaxes(fb.value))),
                      LAMBDA v : [value |-> v,
                                  cache |-> [fb.cache EXCEPT !.ifbanks = <<v>>],
                                  stats |-> [fb.stats EXCEPT !.ifbanks = @ + 1]]))

(* __call__, line 96: negative axes count from the end *)
NormalizedAxes(obj, x) ==
    [j \in 1..Len(obj.independent_axis) |->
       IF obj.independent_axis[j] >= 0 THEN obj.independent_axis[j]
       ELSE Len(x.shape) + obj.independent_axis[j]]

(* __call__, line 97 *)
AxesValid(obj, x) ==
    \A j \in 1..Len(obj.independent_axis) :
       /\ 0 <= NormalizedAxes(obj, x)[j]
       /\ NormalizedAxes(obj, x)[j] < Len(x.shape) - 1

(* the assertion of line 97 reporting the axes as line 96 normalised them *)
AxisAssertionNormalized(obj, x) ==
    [err |-> "AssertionError", msg |-> NormalizedAxes(obj, x)]

(* what the failed assertion of line 97 raises: it reports self.independent_axis *)
AxisAssertion(obj, x) ==
    [err |-> "AssertionError", msg |-> obj.independent_axis]

(* lines 98-101 with every non-last axis taken as independent *)
WarpSizeEveryAxis(obj, x) ==
    [i \in 1..(Len(x.shape) - 1) |-> x.shape[i]]

(* __call__, lines 98-101 *)
WarpSize(obj, x) ==
    [i \in 1..(Len(x.shape) - 1) |->
       IF \E j \in 1..Len(obj.independent_axis) : NormalizedAxes(obj, x)[j] = i - 1
       THEN x.shape[i] ELSE 1]

(* the warping function with the values its samplers hand out in one call *)
Drawn(warping_fn, draw) ==
    IF warping_fn.kind = "None" THEN warping_fn
    ELSE
    [kind |-> warping_fn.kind,
     alpha_sampling_fn |-> [mode |-> warping_fn.alpha_sampling_fn.mode,
                            shape |-> warping_fn.alpha_sampling_fn.shape,
                            tape |-> draw[1]],
     fhi_ratio_sampling_fn |-> [mode |-> warping_fn.fhi_ratio_sampling_fn.mode,
                                shape |-> warping_fn.fhi_ratio_sampling_fn.shape,
                                tape |-> draw[2]]]

(* lines 114-117 with the singleton axis of the batched product kept *)
WarpedMultiplyKeepAxis(x, fb) ==
    IF fb.shape[Len(fb.shape) - 2] = 1
    THEN [branch |-> "matmul", y |-> Matmul(x, squeeze(fb, 3))]
    ELSE [branch |-> "batched", y |-> Matmul(ExpandDims(x), fb)]

RECURSIVE ProductOf(_, _)
ProductOf(shape, n) == IF n = 0 THEN 1 ELSE shape[n] * ProductOf(shape, n - 1)

(* lines 114-117 with the branch chosen by the number of filterbanks: the   *)
(* plain product only when there is one filterbank in all                   *)
WarpedMultiplyByProduct(x, fb) ==
    IF ProductOf(fb.shape, Len(fb.shape) - 2) = 1
    THEN [branch |-> "matmul", y |-> Matmul(x, squeeze(fb, 3))]
    ELSE Bind(Matmul(ExpandDims(x), fb),
              LAMBDA y : [branch |-> "batched",
                          y |-> IF IsErr(y) THEN y ELSE squeeze(y, 2)])

(* __call__, lines 114-117 *)
WarpedMultiply(x, fb) ==
    IF fb.shape[Len(fb.shape) - 2] = 1
    THEN [branch |-> "matmul", y |-> Matmul(x, squeeze(fb, 3))]
    ELSE Bind(Matmul(ExpandDims(x), fb),
              LAMBDA y : [branch |-> "batched",
                          y |-> IF IsErr(y) THEN y ELSE squeeze(y, 2)])

(* line 119 without eps: the filter-mapped values go to np.log as they are *)
LogArgumentWithoutEps(obj, y) == y

(* __call__, lines 118-119: what is handed to np.log *)
LogArgument(obj, y) ==
    Array(y.shape, [i \in DOMAIN y.at |-> RAdd(y.at[i], obj.eps)])

LogStep(obj, y) ==
    IF IsErr(y) THEN y
    ELSE IF obj.log THEN MapArr(np_log, LogArgument(obj, y))
    ELSE y

(* __call__, lines 118-120, after the filterbank multiplication gave m *)
Finish(obj, m, c, st, size) ==
    [out |-> LogStep(obj, m.y), y |-> m.y, cache |-> c, stats |-> st,
     branch |-> m.branch, size |-> size]

Raise(e, c, st, size) ==
    [out |-> e, y |-> e, cache |-> c, stats |-> st, branch |-> "none",
     size |-> size]

(* lines 98-110 with the warping function called a second time, for a     *)
(* filterbank that is thrown away                                          *)
WarpedFbanksTwice(obj, st, x, draw) ==
    [size |-> WarpSize(obj, x),
     raw |-> get_fbanks(obj.sample_rate, obj.stft_size,
                        obj.number_of_filters, obj.lowest_frequency,
                        obj.highest_frequency,
                        Drawn(obj.warping_fn, draw), WarpSize(obj, x)),
     stats |-> [st EXCEPT !.warping = @ + 2, !.alpha = @ + 2,
                          !.fhi_ratio = @ + 2]]

(* __call__, lines 98-110: the size asked for, the filterbank get_fbanks   *)
(* returns for what the samplers hand out, and the calls made to them      *)
WarpedFbanks(obj, st, x, draw) ==
    [size |-> WarpSize(obj, x),
     raw |-> get_fbanks(obj.sample_rate, obj.stft_size,
                        obj.number_of_filters, obj.lowest_frequency,
                        obj.highest_frequency,
                        Drawn(obj.warping_fn, draw), WarpSize(obj, x)),
     stats |-> [st EXCEPT !.warping = @ + 1, !.alpha = @ + 1,
                          !.fhi_ratio = @ + 1]]

(* MelTransform.__call__ *)
Call(obj, c, st, x, draw) ==
    IF obj.warping_fn.kind = "None"
    THEN Bind(fbanks(obj, c, st),
              LAMBDA fb : Finish(obj, [y |-> Matmul(x, fb.value), branch |-> "cached"],
                                 fb.cache, fb.stats, <<>>))
    ELSE IF ~AxesValid(obj, x)
    THEN Raise(AxisAssertion(obj, x), c, st, <<>>)
    ELSE Bind(WarpedFbanks(obj, st, x, draw),
              LAMBDA g :
                 IF IsErr(g.raw) THEN Raise(g.raw, c, g.stats, g.size)
                 ELSE Bind(WarpedMultiply(
                              x, swapaxes(Normalize32(astype_float32(g.raw), obj.eps))),
                           LAMBDA m : Finish(obj, m, c, g.stats, g.size)))

(* line 126 without np.maximum: the product is returned as it is *)
NotClipped(d) == d

(* np.maximum(d, 0.), line 126: a NaN entry stays NaN *)
maximum0(d) ==
    Array(d.shape, [i \in DOMAIN d.at |-> RMax(d.at[i], R(0))])

(* MelTransform.inverse *)
inverse(obj, c, st, x) ==
    Bind([xe |-> IF obj.log THEN MapArr(np_exp, x) ELSE x,
          ifb |-> ifbanks(obj, c, st)],
         LAMBDA g :
            Bind(dot(g.xe, g.ifb.value),
                 LAMBDA d :
                    [out |-> IF IsErr(d) THEN d ELSE maximum0(d),
                     exped |-> g.xe, cache |-> g.ifb.cache, stats |-> g.ifb.stats]))

(***************************************************************************)
(* fbank: the feature pipeline.  Pre-emphasis, stft and                    *)
(* stft_to_spectrogram live in other modules; what reaches MelTransform is *)
(* the power spectrogram divided by stft_size, an array of shape           *)
(* (frames, stft_size//2+1) of non-negative values.                        *)
(***************************************************************************)
(* eps=1e-18 of MelTransform.__init__, which fbank leaves at its default;  *)
(* taken as 1/100 to stay inside the integers of the model                 *)
DefaultEps == Rat(1, 100)

(* the MelTransform fbank builds from its arguments (log disabled) *)
FbankTransform(sample_rate, stft_size, number_of_filters, lowest_frequency, highest_frequency) ==
    MelTransform(sample_rate, stft_size, number_of_filters, lowest_frequency,
                 IF IsNone(highest_frequency) \/ highest_frequency = R(0)
                 THEN Rat(sample_rate, 2) ELSE highest_frequency,
                 FALSE, DefaultEps, NoWarping, [scalar |-> TRUE, ax |-> 0])

(* np.min(feature, axis=0)[k] over the first n frames *)
RECURSIVE MinOverFrames(_, _, _)
MinOverFrames(feature, k, n) ==
    IF n = 1 THEN feature.at[<<0, k>>]
    ELSE RMin(MinOverFrames(feature, k, n - 1), feature.at[<<n - 1, k>>])

(* the smallest entry of the whole feature array *)
DenoiseByGlobalMin(feature) ==
    Bind(CHOOSE m \in {feature.at[i] : i \in DOMAIN feature.at} :
            \A i \in DOMAIN feature.at : RLe(m, feature.at[i]),
         LAMBDA m : Array(feature.shape,
                          [i \in DOMAIN feature.at |-> RSub(feature.at[i], m)]))

(* feature -= np.min(feature, axis=0) *)
Denoise(feature) ==
    Array(feature.shape,
          [i \in DOMAIN feature.at |->
             RSub(feature.at[i], MinOverFrames(feature, i[2], feature.shape[1]))])

(* fbank from the spectrogram on: mel_transform(spectrogram), then denoise *)
fbank(obj, spectrogram, denoise) ==
    Bind(Call(obj, [fbanks |-> <<>>, ifbanks |-> <<>>],
              [calls |-> 0, fbanks |-> 0, ifbanks |-> 0,
               warping |-> 0, alpha |-> 0, fhi_ratio |-> 0],
              spectrogram, << <<>>, <<>> >>).out,
         LAMBDA feature :
            [feature |-> feature,
             out |-> IF IsErr(feature) \/ ~denoise THEN feature
                     ELSE Denoise(feature)])

(***************************************************************************)
(* The steps of the program.                                               *)
(***************************************************************************)
NoCache == [fbanks |-> <<>>, ifbanks |-> <<>>]

NoStats == [calls |-> 0, fbanks |-> 0, ifbanks |-> 0,
            warping |-> 0, alpha |-> 0, fhi_ratio |-> 0]

(* transform(x), the samplers handing out `draw` *)
Forward(x, draw) ==
    /\ \E r \in {Call(self, cache, stats, x, draw)} :
          /\ cache' = r.cache
          /\ stats' = [r.stats EXCEPT !.calls = @ + 1]
          /\ call' = [op |-> "forward", x |-> x, out |-> r.out, y |-> r.y,
                      branch |-> r.branch, size |-> r.size, draw |-> draw,
                      before |-> [cache |-> cache, stats |-> stats]]
    /\ UNCHANGED self

(* transform.inverse(x) *)
Inverse(x) ==
    /\ \E r \in {inverse(self, cache, stats, x)} :
          /\ cache' = r.cache
          /\ stats' = [r.stats EXCEPT !.calls = @ + 1]
          /\ call' = [op |-> "inverse", x |-> x, out |-> r.out, exped |-> r.exped,
                      before |-> [cache |-> cache, stats |-> stats],
                      of |-> IF call.op = "forward" /\ x = call.out
                             THEN <<call.x>> ELSE <<>>]
    /\ UNCHANGED self

(* reading transform.fbanks *)
ReadFbanks ==
    /\ \E r \in {fbanks(self, cache, stats)} :
          /\ cache' = r.cache
          /\ stats' = r.stats
          /\ call' = [op |-> "fbanks", out |-> r.value]
    /\ UNCHANGED self

(* get_fbanks called with the configuration held in `self` *)
GetFbanks(warping_fn, size, draw) ==
    /\ call' = [op |-> "get_fbanks", warping_fn |-> Drawn(warping_fn, draw),
                size |-> size,
                out |-> get_fbanks(self.sample_rate, self.stft_size,
                                   self.number_of_filters, self.lowest_frequency,
                                   self.highest_frequency,
                                   Drawn(warping_fn, draw), size)]
    /\ UNCHANGED <<self, cache, stats>>

(* hz_warping called on the mel-spaced frequency points of `self` *)
HzWarp(alpha, fhi_ratio, max_frequency) ==
    /\ \E f \in {MelPoints(self.sample_rate, self.number_of_filters,
                           self.lowest_frequency, self.highest_frequency)} :
          call' = [op |-> "hz_warping", frequency |-> f, alpha |-> alpha,
                   fhi_ratio |-> fhi_ratio, max_frequency |-> max_frequency,
                   out |-> hz_warping(f, alpha, fhi_ratio, max_frequency)]
    /\ UNCHANGED <<self, cache, stats>>

(* fbank on a time signal whose spectrogram is `spectrogram`, with the     *)
(* MelTransform of its arguments held in `self`                            *)
Fbank(spectrogram, denoise) ==
    /\ \E r \in {fbank(self, spectrogram, denoise)} :
          call' = [op |-> "fbank", spectrogram |-> spectrogram,
                   denoise |-> denoise, feature |-> r.feature, out |-> r.out]
    /\ UNCHANGED <<self, cache, stats>>

(***************************************************************************)
(* The instances, inputs and sampler draws the model ranges over.          *)
(***************************************************************************)
MaxCalls == 3

Sampler(mode, shape, vals) == [mode |-> mode, shape |-> shape, vals |-> vals]

HzSizeWarping ==
    [kind |-> "HzWarping",
     alpha_sampling_fn |-> Sampler("size", <<>>, {Rat(9, 10), Rat(11, 10)}),
     fhi_ratio_sampling_fn |-> Sampler("scalar", <<>>, {Rat(7, 10)})]

(* samplers that always return alpha = 1, with any fhi_ratio *)
UnitAlphaWarping ==
    [kind |-> "HzWarping",
     alpha_sampling_fn |-> Sampler("size", <<>>, {R(1)}),
     fhi_ratio_sampling_fn |-> Sampler("scalar", <<>>, {Rat(6, 10), R(1)})]

MelSizeWarping ==
    [kind |-> "MelWarping",
     alpha_sampling_fn |-> Sampler("size", <<>>, {Rat(9, 10), Rat(11, 10)}),
     fhi_ratio_sampling_fn |-> Sampler("size", <<>>, {Rat(7, 10)})]

(* an alpha sampler that ignores the requested size and returns two values *)
FixedShapeWarping ==
    [kind |-> "HzWarping",
     alpha_sampling_fn |-> Sampler("fixed", <<2>>, {Rat(9, 10), Rat(11, 10)}),
     fhi_ratio_sampling_fn |-> Sampler("scalar", <<>>, {Rat(7, 10)})]

(* samplers over a wide range, each returning a 0-d value *)
WideWarping ==
    [kind |-> "HzWarping",
     alpha_sampling_fn |-> Sampler("scalar", <<>>, {R(0), Rat(1, 2), R(2)}),
     fhi_ratio_sampling_fn |-> Sampler("scalar", <<>>, {R(0), R(1)})]

AxisArgs ==
    {[scalar |-> TRUE, ax |-> 0], [scalar |-> TRUE, ax |-> -1],
     [scalar |-> FALSE, ax |-> <<0, 1, 2>>], [scalar |-> FALSE, ax |-> <<-2, 0>>]}

DefaultAxis == [scalar |-> TRUE, ax |-> 0]

Instances ==
    {MelTransform(8000, 4, k, R(0), hf, lg, Rat(1, 4), NoWarping, DefaultAxis) :
        k \in {1, 2}, hf \in {None, R(6000)}, lg \in BOOLEAN}
    \cup
    {MelTransform(8000, 4, k, R(0), hf, lg, Rat(1, 4), w, ax) :
        k \in {1, 2}, hf \in {None, R(6000)}, lg \in BOOLEAN,
        w \in {HzSizeWarping, UnitAlphaWarping}, ax \in AxisArgs}

SeqInstances ==
    {obj \in Instances :
        /\ obj.number_of_filters = 2
        /\ IsNone(obj.highest_frequency)
        /\ obj.warping_fn \in {NoWarping, HzSizeWarping}
        /\ obj.independent_axis \in {<<0>>, <<-2, 0>>}}

FbankConfigs ==
    {MelTransform(8000, st, k, lf, hf, TRUE, eps, NoWarping, DefaultAxis) :
        st \in {4, 5, 6}, k \in {1, 2, 3}, lf \in {R(0), R(6000)},
        hf \in {None, R(6000), R(8000), R(-1000)},
        eps \in {Rat(1, 4), Rat(1, 100)}}
    \cup
    {MelTransform(8000, 5, 10, R(0), None, TRUE, eps, NoWarping, DefaultAxis) :
        eps \in {Rat(1, 4), Rat(1, 100)}}

PatternValue(pattern, flat) ==
    IF pattern = "zeros" THEN R(0)
    ELSE IF pattern = "large" THEN R(1000)
    ELSE IF pattern = "ramp" THEN R(flat % 4)
    ELSE R((flat % 3) - 1)

Input(shape, pattern) ==
    Array(shape,
     [i \in Idx(shape) |-> PatternValue(pattern, FlatIndex(i, shape))])

ForwardShapes ==
    {<<3>>, <<2, 3>>, <<2, 1, 3>>, <<1, 2, 3>>, <<2, 1, 2, 3>>, <<2, 2>>}

ForwardInputs ==
    {Input(shape, pattern) : shape \in ForwardShapes,
                             pattern \in {"zeros", "ramp", "mixed"}}

SeqForwardInputs ==
    {Input(<<3>>, "ramp"), Input(<<2, 3>>, "zeros"), Input(<<2, 3>>, "mixed")}

InverseShapes(k) == {<<k>>, <<2, k>>, <<2, 1, k>>, <<k + 1>>}

InverseInputs ==
    {Input(shape, pattern) : shape \in InverseShapes(self.number_of_filters),
                             pattern \in {"zeros", "mixed", "large"}}

SeqInverseInputs ==
    {Input(<<self.number_of_filters>>, "mixed"),
     Input(<<2, self.number_of_filters>>, "zeros")}

(* the values a sampler may hand out for one request: every assignment of  *)
(* its values to the requested elements that repeats after two elements    *)
Tapes(sampler, size) ==
    {t \in [1..NumEl(SampleShape(sampler, size)) -> sampler.vals] :
        \A j \in DOMAIN t : j > 2 => t[j] = t[j - 2]}

WarpDraws(warping_fn, size) ==
    IF warping_fn.kind = "None" THEN {<< <<>>, <<>> >>}
    ELSE {<<ta, tr>> : ta \in Tapes(warping_fn.alpha_sampling_fn, size),
                       tr \in Tapes(warping_fn.fhi_ratio_sampling_fn, size)}

(* what the two samplers may hand out in one forward call on x *)
Draws(obj, x) ==
    IF obj.warping_fn.kind = "None" \/ ~AxesValid(obj, x) THEN {<< <<>>, <<>> >>}
    ELSE WarpDraws(obj.warping_fn, WarpSize(obj, x))

FbankWarpings ==
    {NoWarping, HzSizeWarping, MelSizeWarping, FixedShapeWarping, WideWarping}

FbankSizes == {<<>>, <<2>>, <<1, 2>>, <<2, 1>>, <<2, 3>>}

WarpAlphas == {Scalar(Rat(1, 2)), Scalar(Rat(9, 10)), Scalar(R(1)), Scalar(R(2)),
               Scalar(Rat(19, 10)), Vec(<<Rat(9, 10), Rat(11, 10)>>)}

WarpRatios == {Scalar(R(0)), Scalar(Rat(7, 10)), Scalar(R(1))}

(***************************************************************************)
(* Spec: one MelTransform and the calls made on it, in any order.          *)
(***************************************************************************)
Init ==
    /\ self \in SeqInstances
    /\ cache = NoCache
    /\ stats = NoStats
    /\ call = [op |-> "none"]

Next ==
    \/ /\ stats.calls < MaxCalls
       /\ \E x \in SeqForwardInputs : \E draw \in Draws(self, x) : Forward(x, draw)
    \/ /\ stats.calls < MaxCalls
       /\ \E x \in SeqInverseInputs : Inverse(x)
    \/ /\ stats.calls < MaxCalls
       /\ call.op = "forward"
       /\ ~IsErr(call.out)
       /\ Inverse(call.out)

Spec == Init /\ [][Next]_vars

(***************************************************************************)
(* SpecCall: one call on a fresh instance, over every instance and input,  *)
(* and the inverse of what a forward call returned.                        *)
(***************************************************************************)
InitCall ==
    /\ self \in Instances
    /\ cache = NoCache
    /\ stats = NoStats
    /\ call = [op |-> "none"]

NextCall ==
    \/ /\ call.op = "none"
       /\ \E x \in ForwardInputs : \E draw \in Draws(self, x) : Forward(x, draw)
    \/ /\ call.op = "none"
       /\ \E x \in InverseInputs : Inverse(x)
    \/ /\ call.op = "forward"
       /\ ~IsErr(call.out)
       /\ Inverse(call.out)

SpecCall == InitCall /\ [][NextCall]_vars

(* the transforms fbank builds over a range of its arguments *)
FeatureTransforms ==
    {FbankTransform(8000, st, k, lf, hf) :
        st \in {4, 5}, k \in {1, 2, 3}, lf \in {R(0), R(6000)},
        hf \in {None, R(0), R(6000), R(-1000)}}

(* stft_to_spectrogram(stft(...)) / stft_size: squared magnitudes, >= 0 *)
PowerValue(pattern, flat) ==
    IF pattern = "silence" THEN R(0)
    ELSE IF pattern = "ramp" THEN R((flat * flat) % 7)
    ELSE Rat(((flat + 2) * (flat + 5)) % 5, 2)

Spectrogram(frames, nbins, pattern) ==
    Array(<<frames, nbins>>,
          [i \in Idx(<<frames, nbins>>) |->
             PowerValue(pattern, FlatIndex(i, <<frames, nbins>>))])

Spectrograms(obj) ==
    {Spectrogram(frames, (obj.stft_size \div 2) + 1, pattern) :
        frames \in {1, 2, 3}, pattern \in {"silence", "ramp", "tone"}}

(***************************************************************************)
(* SpecFbanks: the functions under MelTransform, called once each over a   *)
(* range of configurations.                                                *)
(***************************************************************************)
InitFbanks ==
    /\ self \in FbankConfigs
    /\ cache = NoCache
    /\ stats = NoStats
    /\ call = [op |-> "none"]

NextFbanks ==
    \/ /\ call.op = "none"
       /\ \E w \in FbankWarpings : \E size \in FbankSizes :
             \E draw \in WarpDraws(w, size) : GetFbanks(w, size, draw)
    \/ /\ call.op = "none"
       /\ \E alpha \in WarpAlphas : \E fhi_ratio \in WarpRatios :
             \E max_frequency \in {None, Rat(self.sample_rate, 2)} :
                HzWarp(alpha, fhi_ratio, max_frequency)
    \/ /\ call.op = "none"
       /\ ReadFbanks

SpecFbanks == InitFbanks /\ [][NextFbanks]_vars

(***************************************************************************)
(* SpecFeature: fbank called once, over its arguments and spectrograms.    *)
(***************************************************************************)
InitFeature ==
    /\ self \in FeatureTransforms
    /\ cache = NoCache
    /\ stats = NoStats
    /\ call = [op |-> "none"]

NextFeature ==
    /\ call.op = "none"
    /\ \E spectrogram \in Spectrograms(self) : \E denoise \in BOOLEAN :
          Fbank(spectrogram, denoise)

SpecFeature == InitFeature /\ [][NextFeature]_vars

(***************************************************************************)
(* Properties.                                                             *)
(***************************************************************************)
(* the frequency points of the instance lie in [0, sample_rate/2]; above   *)
(* sample_rate/2 a warped call fails the assertion of hz_warping           *)
InBand(obj) ==
    /\ RLe(R(0), obj.lowest_frequency)
    /\ RLe(obj.lowest_frequency,
           HighestFrequency(obj.sample_rate, obj.highest_frequency))
    /\ RLe(HighestFrequency(obj.sample_rate, obj.highest_frequency),
           Rat(obj.sample_rate, 2))

(* the input x is one the shape claim speaks of *)
ShapeCase(obj, x) ==
    /\ Len(x.shape) >= 2
    /\ Last(x.shape) = (obj.stft_size \div 2) + 1
    /\ InBand(obj)
    /\ (obj.warping_fn.kind = "None" \/ AxesValid(obj, x))

C2_ComputedOnce ==
    self.warping_fn.kind = "None" =>
       /\ stats.fbanks <= 1
       /\ stats.ifbanks <= 1
       /\ (stats.fbanks = 1) = (cache.fbanks # <<>>)
       /\ (stats.ifbanks = 1) = (cache.ifbanks # <<>>)
       /\ call.op \in {"forward", "inverse"} =>
             /\ call.before.cache.fbanks # <<>> =>
                   /\ cache.fbanks = call.before.cache.fbanks
                   /\ stats.fbanks = call.before.stats.fbanks
             /\ call.before.cache.ifbanks # <<>> =>
                   /\ cache.ifbanks = call.before.cache.ifbanks
                   /\ stats.ifbanks = call.before.stats.ifbanks

(* a third call on an unwarped instance that found both values stored *)
C2_Witness ==
    /\ self.warping_fn.kind = "None"
    /\ stats.calls = 3
    /\ call.op = "forward"
    /\ call.before.cache.fbanks # <<>>
    /\ call.before.cache.ifbanks # <<>>
    /\ stats.fbanks = 1
    /\ stats.ifbanks = 1

(* the bin positions get_fbanks derived in the call just made *)
BinsOfCall ==
    FilterBins(self.sample_rate, self.stft_size, self.number_of_filters,
               self.lowest_frequency, self.highest_frequency,
               call.warping_fn, call.size)

FilterOk(k, b, q, nbins) ==
    /\ RLe(onsets(k, b, q), RSub(centers(k, b, q), R(1)))
    /\ RLe(RAdd(centers(k, b, q), R(1)), offsets(k, b, q))
    /\ \A idx \in 0..(nbins - 1) :
          /\ RLe(R(0), FilterValue(k, b, q, idx))
          /\ RLe(FilterValue(k, b, q, idx), R(1))
          /\ (RLe(R(idx), onsets(k, b, q)) \/ RLe(offsets(k, b, q), R(idx)))
                => FilterValue(k, b, q, idx) = R(0)

(* C3: for every filter of every filterbank get_fbanks returns, with or    *)
(* without warping: the onset used is <= center - 1, the offset used is    *)
(* >= center + 1, every filter value lies in [0, 1] and is 0 at every bin  *)
(* index <= onset or >= offset; the returned array holds these values.     *)
C3_Triangles ==
    call.op = "get_fbanks" =>
       Bind(BinsOfCall,
            LAMBDA k :
               \/ IsErr(k)
               \/ /\ \A b \in Idx(Front(k.shape)) :
                        \A q \in 0..(self.number_of_filters - 1) :
                           FilterOk(k, b, q, (self.stft_size \div 2) + 1)
                  /\ ~IsErr(call.out) =>
                        \A i \in DOMAIN call.out.at :
                           call.out.at[i] =
                              FilterValue(k,
                                          BIdx(Front(k.shape),
                                               SubSeq(i, 1, Len(call.size))),
                                          i[Len(i) - 1], Last(i)))

(* a warped filterbank with a filter whose neighbours lie less than one    *)
(* bin from its center, so that both onset and offset are moved, and with  *)
(* a value strictly between 0 and 1                                        *)
C3_Witness ==
    /\ call.op = "get_fbanks"
    /\ call.warping_fn.kind # "None"
    /\ ~IsErr(call.out)
    /\ \E i \in DOMAIN call.out.at :
          RLt(R(0), call.out.at[i]) /\ RLt(call.out.at[i], R(1))
    /\ Bind(BinsOfCall,
            LAMBDA k :
               \E b \in Idx(Front(k.shape)) :
                  \E q \in 0..(self.number_of_filters - 1) :
                     /\ RLt(RSub(centers(k, b, q), R(1)), BinAt(k, b, q))
                     /\ RLt(BinAt(k, b, q + 2), RAdd(centers(k, b, q), R(1))))

(* the weights of filter q in the operator m = fbanks (bins x filters)     *)
(* sum to 1 within eps                                                     *)
SumsToOne(obj, m, q) ==
    Bind(SumLast(swapaxes(m), <<q>>),
         LAMBDA total : /\ RLe(RSub(R(1), obj.eps), total)
                        /\ RLe(total, RAdd(R(1), obj.eps)))

(* every filter of the unwarped filterbank has its center on the bins      *)
(* 0..stft_size//2                                                         *)
CentersOnBins(obj) ==
    Bind(FilterBins(obj.sample_rate, obj.stft_size, obj.number_of_filters,
                    obj.lowest_frequency, obj.highest_frequency, NoWarping, <<>>),
         LAMBDA k :
            \A q \in 0..(obj.number_of_filters - 1) :
               /\ RLe(R(0), centers(k, <<>>, q))
               /\ RLe(centers(k, <<>>, q), R(obj.stft_size \div 2)))

TopOfCall == call.frequency.at[<<call.frequency.shape[1] - 1>>]

(* the call made was hz_warping(f, alpha, fhi_ratio) on a vector f whose   *)
(* last element is max_frequency, and it returned an array                 *)
TopCase ==
    /\ call.op = "hz_warping"
    /\ ~IsErr(call.out)
    /\ (IsNone(call.max_frequency) \/ call.max_frequency = TopOfCall)

(* the last element of row b of the result *)
WarpedTop(b) == call.out.at[b \o <<call.frequency.shape[1] - 1>>]

(* C5 as stated: for a frequency vector f whose last element is            *)
(* max_frequency, and for any alpha and any fhi_ratio, the last element of *)
(* hz_warping(f, alpha, fhi_ratio) equals f[-1] = max_frequency.           *)
C5_Original ==
    TopCase => \A b \in Idx(Front(call.out.shape)) : WarpedTop(b) = TopOfCall

(* C5, amended: for a frequency vector f whose last element is             *)
(* max_frequency > 0, alpha > 0 and fhi_ratio in [0, 1], the last element   *)
(* of hz_warping(f, alpha, fhi_ratio) equals max_frequency whenever the     *)
(* breakpoint the code arrives at (line 305, after the replacement of line  *)
(* 309) is below max_frequency, as it is for every fhi_ratio < 1 in exact   *)
(* arithmetic; when that breakpoint is max_frequency itself, as for         *)
(* fhi_ratio = 1 and alpha = 1/2, it equals alpha * max_frequency.          *)
C5_TopPinned ==
    (TopCase /\ RLt(R(0), TopOfCall)) =>
       \A b \in Idx(Front(call.out.shape)) :
          Bind([alpha |-> BAt(call.alpha, b), fhi_ratio |-> BAt(call.fhi_ratio, b)],
               LAMBDA p :
                  (/\ RLt(R(0), p.alpha)
                   /\ RLe(R(0), p.fhi_ratio)
                   /\ RLe(p.fhi_ratio, R(1))) =>
                     /\ RLt(WarpBreakpoint(p.alpha, p.fhi_ratio, TopOfCall), TopOfCall)
                           => WarpedTop(b) = TopOfCall
                     /\ WarpBreakpoint(p.alpha, p.fhi_ratio, TopOfCall) = TopOfCall
                           => WarpedTop(b) = RMul(p.alpha, TopOfCall)
                     /\ RLt(p.fhi_ratio, R(1)) => WarpedTop(b) = TopOfCall
                     /\ (p.fhi_ratio = R(1) /\ p.alpha = Rat(1, 2))
                           => WarpedTop(b) = RMul(p.alpha, TopOfCall))

(* hz_warping with alpha = 9/10 and fhi_ratio = 7/10 moved a frequency     *)
(* point and left the top, max_frequency, where it was                     *)
C5_Witness ==
    /\ TopCase
    /\ RLt(R(0), TopOfCall)
    /\ call.alpha = Scalar(Rat(9, 10))
    /\ call.fhi_ratio = Scalar(Rat(7, 10))
    /\ WarpedTop(<<>>) = TopOfCall
    /\ \E i \in DOMAIN call.out.at : call.out.at[i] # call.frequency.at[i]

(* the warping function of obj always yields alpha = 1 *)
UnitAlpha(obj) ==
    /\ obj.warping_fn.kind # "None"
    /\ obj.warping_fn.alpha_sampling_fn.vals = {R(1)}

(* the forward call of the otherwise identical instance with warping_fn=None *)
UnwarpedTwin(obj, x) ==
    Call([obj EXCEPT !.warping_fn = NoWarping], NoCache, NoStats, x, << <<>>, <<>> >>)

(* the call made is a forward call the equivalence speaks of *)
UnitAlphaCase ==
    /\ call.op = "forward"
    /\ UnitAlpha(self)
    /\ AxesValid(self, call.x)

(* hz_warping(f, 1, r) = f on the frequency points of obj, called as       *)
(* get_fbanks calls it, for every r the fhi_ratio sampler may return       *)
WarpingIsIdentity(obj) ==
    Bind(MelPoints(obj.sample_rate, obj.number_of_filters,
                   obj.lowest_frequency, obj.highest_frequency),
         LAMBDA f :
            \A r \in obj.warping_fn.fhi_ratio_sampling_fn.vals :
               hz_warping(f, Scalar(R(1)), Scalar(r), Rat(obj.sample_rate, 2)) = f)

(* the sum of |x[prefix, j]| over the last axis of x *)
RECURSIVE AbsSumTo(_, _, _)
AbsSumTo(x, prefix, n) ==
    IF n = 0 THEN R(0)
    ELSE RAdd(AbsSumTo(x, prefix, n - 1),
              Bind(x.at[prefix \o <<n - 1>>],
                   LAMBDA v : IF RLt(v, R(0)) THEN RNeg(v) ELSE v))

(* a and b differ by at most (nbins + 3) * 2^-MantissaBits * scale *)
Close(a, b, nbins, scale) ==
    Bind(RSub(a, b),
         LAMBDA d : RLe(IF RLt(d, R(0)) THEN RNeg(d) ELSE d,
                        RMul(Rat(nbins + 3, Pow2(MantissaBits)), scale)))

(* C6 as stated: a forward call with a warping function that always yields *)
(* alpha = 1 gives the same output as the forward call of the otherwise    *)
(* identical instance with warping_fn=None, for every input and every      *)
(* valid independent_axis, and hz_warping(f, 1, r) = f for every r.        *)
C6_Original ==
    UnitAlphaCase =>
       /\ call.out = UnwarpedTwin(self, call.x).out
       /\ WarpingIsIdentity(self)

(* C6, amended: on an instance whose frequency points lie in               *)
(* [0, sample_rate/2], for every input with stft_size//2+1 entries on its  *)
(* last axis and every valid independent_axis, a forward call with         *)
(* alpha = 1 succeeds and its filter-mapped values (before the logarithm)  *)
(* equal those of the unwarped twin up to the float32 rounding of the      *)
(* warped filterbank: entry by entry they differ by at most                *)
(* (nbins + 3) * 2^-MantissaBits * sum_j |x[.., j]|; and                   *)
(* hz_warping(f, 1, r) = f for every r.                                    *)
C6_UnitAlpha ==
    (UnitAlphaCase /\ InBand(self)
       /\ Last(call.x.shape) = (self.stft_size \div 2) + 1) =>
       /\ WarpingIsIdentity(self)
       /\ ~IsErr(call.y)
       /\ Bind(UnwarpedTwin(self, call.x).y,
               LAMBDA u :
                  /\ ~IsErr(u)
                  /\ u.shape = call.y.shape
                  /\ \A i \in DOMAIN u.at :
                        Close(call.y.at[i], u.at[i], Last(call.x.shape),
                              AbsSumTo(call.x, Front(i), Last(call.x.shape))))

(* a batched alpha = 1 call on a non-zero input whose values differ from   *)
(* the unwarped twin's by the rounding of the filterbank only              *)
C6_Witness ==
    /\ UnitAlphaCase
    /\ InBand(self)
    /\ call.branch = "batched"
    /\ ~IsErr(call.y)
    /\ call.y # UnwarpedTwin(self, call.x).y
    /\ call.y.shape = UnwarpedTwin(self, call.x).y.shape
    /\ \E i \in DOMAIN call.y.at : call.y.at[i] # R(0)

(* independent_axis of obj holds an index that, after the rank of x is     *)
(* added to a negative one, lies outside [0, ndim - 1)                     *)
AxisOutside(obj, x) ==
    \E j \in 1..Len(obj.independent_axis) :
       \E a \in {IF obj.independent_axis[j] < 0
                 THEN obj.independent_axis[j] + Len(x.shape)
                 ELSE obj.independent_axis[j]} :
          a < 0 \/ a >= Len(x.shape) - 1

(* the forward call made failed with an assertion error that reports the   *)
(* configured independent_axis, computed no filterbank, drew no warping    *)
(* and left the cached values as they were                                 *)
FailedFast ==
    /\ IsErr(call.out)
    /\ call.out.err = "AssertionError"
    /\ call.out.msg = self.independent_axis
    /\ cache = call.before.cache
    /\ stats.fbanks = call.before.stats.fbanks
    /\ stats.ifbanks = call.before.stats.ifbanks
    /\ stats.warping = call.before.stats.warping
    /\ stats.alpha = call.before.stats.alpha
    /\ stats.fhi_ratio = call.before.stats.fhi_ratio

(* C7 as stated: a forward call on a MelTransform whose independent_axis   *)
(* holds an index outside [0, ndim - 1) fails with an assertion error      *)
(* reporting the configured independent_axis, before any filterbank is     *)
(* computed, without an output and without changing the cached state.      *)
C7_Original ==
    (call.op = "forward" /\ AxisOutside(self, call.x)) => FailedFast

(* C7, amended: a forward call on a MelTransform with a warping function   *)
(* whose independent_axis holds an index outside [0, ndim - 1) fails with  *)
(* an assertion error reporting the configured independent_axis, before    *)
(* any filterbank is computed, without an output and without changing the  *)
(* cached state; without a warping function independent_axis is not looked *)
(* at.                                                                     *)
C7_AxisAssert ==
    (call.op = "forward" /\ AxisOutside(self, call.x)
       /\ self.warping_fn.kind # "None") => FailedFast

(* a warped instance whose cache an inverse call has filled rejects a      *)
(* rank-1 input and keeps the cached filterbank                            *)
C7_Witness ==
    /\ call.op = "forward"
    /\ self.warping_fn.kind # "None"
    /\ AxisOutside(self, call.x)
    /\ FailedFast
    /\ cache.fbanks # <<>>
    /\ cache.ifbanks # <<>>

(* the shape get_fbanks is to return for the call made *)
FbanksShape == call.size \o <<self.number_of_filters, (self.stft_size \div 2) + 1>>

(* the shapes the two samplers returned broadcast against each other and   *)
(* to the requested size                                                   *)
SamplesFit(warping_fn, size) ==
    \/ warping_fn.kind = "None"
    \/ Bind([a |-> SampleShape(warping_fn.alpha_sampling_fn, size),
             r |-> SampleShape(warping_fn.fhi_ratio_sampling_fn, size)],
            LAMBDA sh :
               /\ Compatible(sh.a, sh.r)
               /\ BroadcastableTo(BroadcastShape(sh.a, sh.r), size))

(* C8 as stated: get_fbanks(sample_rate, stft_size, k) returns an array of *)
(* shape (k, stft_size//2+1); with a warping function and size=(a,b) it    *)
(* returns shape (a, b, k, stft_size//2+1), whatever shapes the alpha and  *)
(* fhi_ratio samplers return for that size (frequency points in            *)
(* [0, sample_rate/2]).                                                    *)
C8_Original ==
    (call.op = "get_fbanks" /\ InBand(self)
       /\ IF call.warping_fn.kind = "None" THEN call.size = <<>>
          ELSE Len(call.size) = 2) =>
       /\ ~IsErr(call.out)
       /\ call.out.shape = FbanksShape

(* C8, amended: get_fbanks returns an array of shape                       *)
(* size + (k, stft_size//2+1) without a warping function, and with one     *)
(* whenever the shapes the alpha and fhi_ratio samplers return broadcast   *)
(* against each other and to size (a sampler that returns a scalar always  *)
(* does); frequency points in [0, sample_rate/2].                          *)
C8_FbanksShape ==
    (call.op = "get_fbanks" /\ InBand(self)
       /\ SamplesFit(call.warping_fn, call.size)) =>
       /\ ~IsErr(call.out)
       /\ call.out.shape = FbanksShape

(* samplers that ignore size=(2,3) and return scalars give a filterbank of *)
(* shape (2, 3, k, stft_size//2+1)                                         *)
C8_Witness ==
    /\ call.op = "get_fbanks"
    /\ InBand(self)
    /\ call.warping_fn.kind = "HzWarping"
    /\ call.warping_fn.alpha_sampling_fn.mode = "scalar"
    /\ call.warping_fn.fhi_ratio_sampling_fn.mode = "scalar"
    /\ call.size = <<2, 3>>
    /\ ~IsErr(call.out)
    /\ call.out.shape = <<2, 3, self.number_of_filters, (self.stft_size \div 2) + 1>>

(* every entry of x is >= 0 *)
NonNegative(x) == \A i \in DOMAIN x.at : RLe(R(0), x.at[i])

(* the call made is a forward call with log enabled and eps > 0 on a       *)
(* non-negative input that reached the logarithm                           *)
LogCase ==
    /\ call.op = "forward"
    /\ self.log
    /\ RLt(R(0), self.eps)
    /\ NonNegative(call.x)
    /\ ~IsErr(call.y)

(* C9: with log enabled and eps > 0, for every input whose entries are all *)
(* non-negative the value passed to the logarithm in the forward call      *)
(* (filter-mapped output + eps) is strictly positive in every entry, on    *)
(* the unwarped and on the warped path, and the output is finite.          *)
C9_LogArgument ==
    LogCase =>
       /\ ~IsErr(call.out)
       /\ \A i \in DOMAIN call.y.at :
             /\ RLt(R(0), LogArgument(self, call.y).at[i])
             /\ IsFinite(LogArgument(self, call.y).at[i])
       /\ \A i \in DOMAIN call.out.at :
             /\ "ln" \in DOMAIN call.out.at[i]
             /\ IsFiniteValue(call.out.at[i])

(* a warped, batched call on an all-zero input hands eps to the logarithm  *)
C9_Witness ==
    /\ LogCase
    /\ call.branch = "batched"
    /\ \A i \in DOMAIN call.x.at : call.x.at[i] = R(0)
    /\ \A i \in DOMAIN call.out.at : call.out.at[i] = [ln |-> self.eps]

(* what the inverse call made exponentiated: its input if and only if the  *)
(* instance was built with log=True                                        *)
ExpIffLog ==
    call.exped = (IF self.log THEN MapArr(np_exp, call.x) ELSE call.x)

(* the product of the (exponentiated) input of the inverse call made with  *)
(* the pseudo-inverse filterbank the instance holds                        *)
InverseProduct == dot(call.exped, cache.ifbanks[1])

(* the stored ifbanks is a pseudo-inverse of the stored fbanks:            *)
(* A A+ A = A and A+ A A+ = A+ for A = fbanks.T                            *)
IsPseudoInverse ==
    Bind([a |-> swapaxes(cache.fbanks[1]), p |-> swapaxes(cache.ifbanks[1])],
         LAMBDA m :
            /\ Matmul2(Matmul2(m.a, m.p), m.a) = m.a
            /\ Matmul2(Matmul2(m.p, m.a), m.p) = m.p)

(* C10 as stated: inverse exponentiates its input first if and only if the *)
(* instance was built with log=True, then multiplies by the pseudo-inverse *)
(* filterbank, and clips: every entry of the returned array is >= 0 for    *)
(* every input.                                                            *)
C10_Original ==
    (call.op = "inverse" /\ ~IsErr(call.out)) =>
       /\ ExpIffLog
       /\ \A i \in DOMAIN call.out.at : RLe(R(0), call.out.at[i])

(* C10, amended: inverse exponentiates its input first if and only if the  *)
(* instance was built with log=True, then multiplies by the pseudo-inverse *)
(* filterbank, and clips with np.maximum(., 0): every entry of the         *)
(* returned array is >= 0 or NaN, and is >= 0 whenever the product with    *)
(* the pseudo-inverse has no NaN entry, in particular whenever every entry *)
(* of the (exponentiated) input is finite.                                 *)
C10_InverseClips ==
    call.op = "inverse" =>
       /\ ExpIffLog
       /\ cache.ifbanks # <<>>
       /\ IsPseudoInverse
       /\ IF IsErr(InverseProduct) THEN call.out = InverseProduct
          ELSE /\ ~IsErr(call.out)
               /\ call.out.shape = InverseProduct.shape
               /\ \A i \in DOMAIN call.out.at :
                     /\ IsNaN(call.out.at[i]) <=> IsNaN(InverseProduct.at[i])
                     /\ ~IsNaN(call.out.at[i]) =>
                           /\ RLe(R(0), call.out.at[i])
                           /\ call.out.at[i] = RMax(InverseProduct.at[i], R(0))
               /\ (\A j \in DOMAIN call.exped.at : IsFinite(call.exped.at[j]))
                     => \A i \in DOMAIN call.out.at : RLe(R(0), call.out.at[i])

(* an inverse call on a log instance whose product with the pseudo-inverse *)
(* has a negative entry, clipped to 0, and a positive one, kept            *)
C10_Witness ==
    /\ call.op = "inverse"
    /\ self.log
    /\ ~IsErr(call.out)
    /\ \A j \in DOMAIN call.exped.at : IsFinite(call.exped.at[j])
    /\ call.exped # call.x
    /\ \E i \in DOMAIN call.out.at :
          RLt(InverseProduct.at[i], R(0)) /\ call.out.at[i] = R(0)
    /\ \E i \in DOMAIN call.out.at : RLt(R(0), call.out.at[i])

(* C11: with denoise=False, every entry of the feature array returned by  *)
(* fbank is non-negative, for every (non-negative power) spectrogram of    *)
(* the time signal and every setting of the filterbank parameters.         *)
C11_FbankNonNegative ==
    (call.op = "fbank" /\ ~call.denoise) =>
       /\ ~IsErr(call.out)
       /\ call.out.shape = <<call.spectrogram.shape[1], self.number_of_filters>>
       /\ \A i \in DOMAIN call.out.at : RLe(R(0), call.out.at[i])

(* fbank without denoise on a three-frame spectrogram returns features     *)
(* that are positive in one place and zero in another                      *)
C11_Witness ==
    /\ call.op = "fbank"
    /\ ~call.denoise
    /\ ~IsErr(call.out)
    /\ call.spectrogram.shape[1] = 3
    /\ \E i \in DOMAIN call.out.at : RLt(R(0), call.out.at[i])
    /\ \E i \in DOMAIN call.out.at : call.out.at[i] = R(0)
    /\ \E i \in DOMAIN call.spectrogram.at : RLt(R(0), call.spectrogram.at[i])

(* the value in [0, half) that differs from v by a whole multiple of half *)
WrappedInto(v, half) ==
    RSub(v, RMul(half, R((v.n * half.d) \div (v.d * half.n))))

(* C13: in get_fbanks, highest_frequency defaults to sample_rate/2 when it *)
(* is None, a negative highest_frequency is replaced by the value in       *)
(* [0, sample_rate/2) congruent to it modulo sample_rate/2, and a          *)
(* non-negative highest_frequency is used unchanged.                       *)
C13_HighestFrequency ==
    call.op = "get_fbanks" =>
       HighestFrequency(self.sample_rate, self.highest_frequency)
          = (IF IsNone(self.highest_frequency) THEN Rat(self.sample_rate, 2)
             ELSE IF RLt(self.highest_frequency, R(0))
             THEN WrappedInto(self.highest_frequency, Rat(self.sample_rate, 2))
             ELSE self.highest_frequency)

(* the triangle with corners (onset, 0), (center, 1), (offset, 0) at idx *)
TriangleAt(onset, center, offset, idx) ==
    IF RLe(idx, onset) \/ RLe(offset, idx) THEN R(0)
    ELSE IF RLe(idx, center)
    THEN RDiv(RSub(idx, onset), RSub(center, onset))
    ELSE RDiv(RSub(offset, idx), RSub(offset, center))

(* entry idx of filter q of batch element b of the filterbank returned is  *)
(* the triangle of that filter, whose onset and offset are held one bin    *)
(* away from the center                                                    *)
OnTriangle(k, b, q, i) ==
    call.out.at[i] =
       TriangleAt(RMin(BinAt(k, b, q), RSub(BinAt(k, b, q + 1), R(1))),
                  BinAt(k, b, q + 1),
                  RMax(BinAt(k, b, q + 2), RAdd(BinAt(k, b, q + 1), R(1))),
                  R(Last(i)))

(* the rows of the returned filterbank: the indices without the bin *)
RowsOfCall == Idx(Front(call.out.shape))

(* C14 as stated: each filter computed by get_fbanks over the bins         *)
(* 0..stft_size/2 is a triangular window that peaks at 1 at the center bin *)
(* (the largest entry of every filterbank row is 1), decays linearly to 0  *)
(* at the onset and the offset, and is 0 elsewhere.                        *)
C14_Original ==
    (call.op = "get_fbanks" /\ ~IsErr(call.out)) =>
       Bind(BinsOfCall,
            LAMBDA k :
               \A r \in RowsOfCall :
                  /\ \E idx \in 0..(self.stft_size \div 2) :
                        call.out.at[r \o <<idx>>] = R(1)
                  /\ \A idx \in 0..(self.stft_size \div 2) :
                        /\ RLe(call.out.at[r \o <<idx>>], R(1))
                        /\ OnTriangle(k, BIdx(Front(k.shape),
                                              SubSeq(r, 1, Len(call.size))),
                                      Last(r), r \o <<idx>>))

(* C14, amended: each filter computed by get_fbanks is the triangle that   *)
(* is 1 at the filter's (continuous) center position, decays linearly to 0 *)
(* at the onset and the offset and is 0 elsewhere, sampled at the bins     *)
(* 0..stft_size/2: every entry is at most 1, and an entry is 1 exactly     *)
(* when the center position is that bin.                                   *)
C14_Triangular ==
    (call.op = "get_fbanks" /\ ~IsErr(call.out)) =>
       Bind(BinsOfCall,
            LAMBDA k :
               \A r \in RowsOfCall :
                  \A idx \in 0..(self.stft_size \div 2) :
                     /\ RLe(call.out.at[r \o <<idx>>], R(1))
                     /\ OnTriangle(k, BIdx(Front(k.shape),
                                           SubSeq(r, 1, Len(call.size))),
                                   Last(r), r \o <<idx>>)
                     /\ call.out.at[r \o <<idx>>] = R(1)
                           <=> BinAt(k, BIdx(Front(k.shape),
                                             SubSeq(r, 1, Len(call.size))),
                                     Last(r) + 1) = R(idx))

(* a filterbank with one filter that has the entry 1, its center being a   *)
(* bin, and one whose largest entry lies strictly between 0 and 1          *)
C14_Witness ==
    /\ call.op = "get_fbanks"
    /\ ~IsErr(call.out)
    /\ \E r \in RowsOfCall :
          \E idx \in 0..(self.stft_size \div 2) : call.out.at[r \o <<idx>>] = R(1)
    /\ \E r \in RowsOfCall :
          /\ \A idx \in 0..(self.stft_size \div 2) :
                RLt(call.out.at[r \o <<idx>>], R(1))
          /\ \E idx \in 0..(self.stft_size \div 2) :
                RLt(R(0), call.out.at[r \o <<idx>>])

(* the step is a forward call on an instance with a warping function *)
WarpedForwardStep ==
    /\ stats'.calls = stats.calls + 1
    /\ call'.op = "forward"
    /\ self.warping_fn.kind # "None"

IndependentAxes(obj, x) ==
    {IF obj.independent_axis[n] < 0 THEN obj.independent_axis[n] + Len(x.shape)
     ELSE obj.independent_axis[n] : n \in 1..Len(obj.independent_axis)}

(* x.shape[i] for i in A and 1 for every other non-last axis *)
SizeAsked(obj, x) ==
    [n \in 1..(Len(x.shape) - 1) |->
       IF (n - 1) \in IndependentAxes(obj, x) THEN x.shape[n] ELSE 1]

(* j: the coordinates of the batch position i on the axes in A, 0 elsewhere *)
FilterbankIndex(obj, x, i) ==
    [n \in 1..Len(i) |-> IF (n - 1) \in IndependentAxes(obj, x) THEN i[n] ELSE 0]

(* the filterbanks W of the call made: what get_fbanks returns for the     *)
(* values the samplers handed out, in float32, normalised, bins x filters  *)
FilterbanksOfCall ==
    swapaxes(Normalize32(astype_float32(
       get_fbanks(self.sample_rate, self.stft_size, self.number_of_filters,
                  self.lowest_frequency, self.highest_frequency,
                  Drawn(self.warping_fn, call.draw), SizeAsked(self, call.x))),
       self.eps))

(* sum over f < n of x[i, f] * W[j][f, k] *)
RECURSIVE WeightedSum(_, _, _, _, _, _)
WeightedSum(x, W, i, j, k, n) ==
    IF n = 0 THEN R(0)
    ELSE RAdd(WeightedSum(x, W, i, j, k, n - 1),
              RMul(x.at[i \o <<n - 1>>], W.at[j \o <<n - 1, k>>]))

(* the call made is a forward call on the warped path, past the assertion *)
WarpedCase ==
    /\ call.op = "forward"
    /\ self.warping_fn.kind # "None"
    /\ ~AxisOutside(self, call.x)

(* C16: on the warped forward path with independent axes A, the warping    *)
(* function is asked for size[i] = x.shape[i] for i in A and 1 for every   *)
(* other non-last axis, and the filter-mapped output is                    *)
(* out[i, k] = sum over f of x[i, f] * W[j][f, k], where j keeps the       *)
(* coordinates of i on the axes in A and is 0 elsewhere, in both multiply  *)
(* branches.                                                               *)
C16_PerAxisFilterbank ==
    WarpedCase =>
       /\ call.size = SizeAsked(self, call.x)
       /\ ~IsErr(call.y) =>
             Bind(FilterbanksOfCall,
                  LAMBDA W :
                     /\ call.branch \in {"matmul", "batched"}
                     /\ \A i \in Idx(Front(call.x.shape)) :
                           \A k \in 0..(self.number_of_filters - 1) :
                              call.y.at[i \o <<k>>] =
                                 WeightedSum(call.x, W, i,
                                             FilterbankIndex(self, call.x, i),
                                             k, Last(call.x.shape)))

(* a call on a rank-4 input with the independent axes 0 and 2: the batch   *)
(* positions 0 and 1 of axis 2 were given different filterbanks and the     *)
(* output is not all zero                                                  *)
C16_Witness ==
    /\ WarpedCase
    /\ ~IsErr(call.y)
    /\ call.x.shape = <<2, 1, 2, 3>>
    /\ IndependentAxes(self, call.x) = {0, 2}
    /\ call.size = <<2, 1, 2>>
    /\ call.branch = "batched"
    /\ \E k \in 0..(self.number_of_filters - 1) :
          /\ FilterbanksOfCall.at[<<0, 0, 0, 1, k>>]
                # FilterbanksOfCall.at[<<0, 0, 1, 1, k>>]
          /\ \E i \in DOMAIN call.y.at : call.y.at[i] # R(0)

(* the product of the input's sizes along the independent axes *)
IndependentProduct(obj, x) == ProductOf(SizeAsked(obj, x), Len(x.shape) - 1)

(* the warped forward call made reached the multiplication of lines 114-117 *)
MultiplyCase ==
    /\ WarpedCase
    /\ call.branch \in {"matmul", "batched"}

(* C17 as stated: on the warped forward path the plain matrix multiply is   *)
(* used exactly when the product of the input's sizes along the independent *)
(* axes is 1, the batched contraction in every other case.                  *)
C17_Original ==
    MultiplyCase => (call.branch = "matmul" <=> IndependentProduct(self, call.x) = 1)

(* C17, amended: on the warped forward path the plain matrix multiply is    *)
(* used exactly when the size requested for the last non-feature axis is 1  *)
(* (that axis is not independent, or has length 1), which includes every    *)
(* call where the product of the input's sizes along the independent axes   *)
(* is 1; the batched contraction is used in every other case.               *)
C17_BranchByLastAxis ==
    MultiplyCase =>
       /\ call.branch = "matmul" <=> Last(SizeAsked(self, call.x)) = 1
       /\ call.branch = "batched" <=> Last(SizeAsked(self, call.x)) # 1
       /\ IndependentProduct(self, call.x) = 1 => call.branch = "matmul"

(* an input (2, 1, 3) with independent_axis=0: two filterbanks, one per     *)
(* position of axis 0, applied by the plain matrix multiply                 *)
C17_Witness ==
    /\ MultiplyCase
    /\ call.x.shape = <<2, 1, 3>>
    /\ IndependentAxes(self, call.x) = {0}
    /\ IndependentProduct(self, call.x) = 2
    /\ call.branch = "matmul"
    /\ ~IsErr(call.y)

(* bp = fhi_ratio * max_frequency * min(alpha, 1) / alpha *)
BreakpointOf(alpha, fhi_ratio, max_frequency) ==
    RDiv(RMul(RMul(fhi_ratio, max_frequency), RMin(alpha, R(1))), alpha)

(* max_frequency + (f - max_frequency) * (max_frequency - alpha*bp) / (max_frequency - bp) *)
UpperPiece(f, alpha, bp, max_frequency) ==
    RAdd(max_frequency,
         RDiv(RMul(RSub(f, max_frequency), RSub(max_frequency, RMul(alpha, bp))),
              RSub(max_frequency, bp)))

(* the maximal frequency of the hz_warping call made *)
MaxFrequencyOfCall ==
    IF IsNone(call.max_frequency)
    THEN call.frequency.at[<<call.frequency.shape[1] - 1>>]
    ELSE call.max_frequency

(* hz_warping returned, for a positive alpha and fhi_ratio in [0, 1] *)
HzWarpingCase ==
    /\ call.op = "hz_warping"
    /\ ~IsErr(call.out)
    /\ \A i \in DOMAIN call.alpha.at : RLt(R(0), call.alpha.at[i])
    /\ \A i \in DOMAIN call.fhi_ratio.at :
          RLe(R(0), call.fhi_ratio.at[i]) /\ RLe(call.fhi_ratio.at[i], R(1))

(* the warped value at index i agrees with the piece chosen by bp, and the *)
(* upper piece starts from the value alpha * bp at bp                      *)
PiecewiseAt(i, f, alpha, bp, max_frequency) ==
    /\ RLe(f, bp) => call.out.at[i] = RMul(alpha, f)
    /\ RLt(bp, f) => call.out.at[i] = UpperPiece(f, alpha, bp, max_frequency)
    /\ RLt(bp, max_frequency) =>
          /\ UpperPiece(bp, alpha, bp, max_frequency) = RMul(alpha, bp)
          /\ WarpPoint(bp, alpha, call.fhi_ratio.at[<<>>], max_frequency)
                = RMul(alpha, bp)
          /\ WarpPoint(RDiv(RAdd(bp, max_frequency), R(2)), alpha,
                       call.fhi_ratio.at[<<>>], max_frequency)
                = RDiv(RAdd(RMul(alpha, bp), max_frequency), R(2))

(* C18: hz_warping is a continuous piecewise-linear map: with              *)
(* bp = fhi_ratio*max_frequency*min(alpha,1)/alpha, every frequency <= bp  *)
(* maps to alpha*frequency, every frequency > bp maps to                   *)
(* max_frequency + (frequency - max_frequency)*(max_frequency - alpha*bp)  *)
(* /(max_frequency - bp), and the two pieces give the same value alpha*bp  *)
(* at frequency = bp.                                                      *)
C18_PiecewiseLinear ==
    HzWarpingCase =>
       \A i \in DOMAIN call.out.at :
          PiecewiseAt(i, call.frequency.at[<<Last(i)>>],
                      BAt(call.alpha, Front(i)),
                      BreakpointOf(BAt(call.alpha, Front(i)),
                                   call.fhi_ratio.at[<<>>], MaxFrequencyOfCall),
                      MaxFrequencyOfCall)

(* fbank returned a feature array *)
FeatureCase ==
    /\ call.op = "fbank"
    /\ ~IsErr(call.out)

(* frame t holds the minimum of filter k of the filter-mapped values *)
IsMinFrame(t, k) ==
    \A u \in 0..(call.feature.shape[1] - 1) :
       RLe(call.feature.at[<<t, k>>], call.feature.at[<<u, k>>])

(* filter k of the returned array is filter k of the filter-mapped values  *)
(* less its minimum over the frames: it is 0 in a frame and never negative *)
ColumnDenoised(k) ==
    /\ \E t \in 0..(call.out.shape[1] - 1) :
          /\ IsMinFrame(t, k)
          /\ call.out.at[<<t, k>>] = R(0)
          /\ \A u \in 0..(call.out.shape[1] - 1) :
                call.out.at[<<u, k>>]
                   = RSub(call.feature.at[<<u, k>>], call.feature.at[<<t, k>>])
    /\ \A u \in 0..(call.out.shape[1] - 1) : RLe(R(0), call.out.at[<<u, k>>])

(* C19: with denoise=True, fbank subtracts from each filter its minimum    *)
(* over the frames: in the returned feature array every filter (column)    *)
(* has minimum exactly 0 across time and every entry is non-negative; with *)
(* denoise=False the filter-mapped values are returned unchanged.          *)
C19_Denoise ==
    FeatureCase =>
       /\ call.out.shape = call.feature.shape
       /\ call.denoise =>
             \A k \in 0..(call.out.shape[2] - 1) : ColumnDenoised(k)
       /\ ~call.denoise => call.out = call.feature

(* a denoised feature array of three frames and two filters whose minima,   *)
(* both above 0, differ: both were taken out                                *)
C19_Witness ==
    /\ FeatureCase
    /\ call.denoise
    /\ call.out.shape = <<3, 2>>
    /\ \E t, u \in 0..2 :
          /\ IsMinFrame(t, 0)
          /\ IsMinFrame(u, 1)
          /\ RLt(R(0), call.feature.at[<<t, 0>>])
          /\ RLt(R(0), call.feature.at[<<u, 1>>])
          /\ call.feature.at[<<t, 0>>] # call.feature.at[<<u, 1>>]
    /\ \E i \in DOMAIN call.out.at : RLt(R(0), call.out.at[i])

(* an element of the frequency vector is above max_frequency by 1e-6 or more *)
ExceedsMaximum ==
    \E i \in DOMAIN call.frequency.at :
       ~RLtRecip(RSub(call.frequency.at[i], MaxFrequencyOfCall), TolRecip)

(* the call made ended in the assertion error of hz_warping *)
AssertionFailed ==
    /\ IsErr(call.out)
    /\ call.out.err = "AssertionError"

(* the highest_frequency given is above sample_rate/2 *)
AboveNyquist(obj) ==
    /\ ~IsNone(obj.highest_frequency)
    /\ RLt(Rat(obj.sample_rate, 2), obj.highest_frequency)

(* C20: hz_warping rejects frequencies above the maximum: if the largest    *)
(* element of the frequency vector exceeds max_frequency by 1e-6 or more    *)
(* (max_frequency defaults to the last element of the vector) the call      *)
(* fails with an assertion error and returns nothing, so get_fbanks with a  *)
(* warping function fails whenever highest_frequency is above               *)
(* sample_rate/2, while the same call without a warping function succeeds.  *)
C20_RejectsAboveMaximum ==
    /\ (call.op = "hz_warping" /\ ExceedsMaximum) => AssertionFailed
    /\ (call.op = "get_fbanks" /\ AboveNyquist(self)) =>
          IF call.warping_fn.kind = "None"
          THEN /\ ~IsErr(call.out)
               /\ call.out.shape = call.size \o <<self.number_of_filters,
                                                    (self.stft_size \div 2) + 1>>
          ELSE AssertionFailed

(* get_fbanks with a warping function and highest_frequency = 6000 at a     *)
(* sample rate of 8000: the call failed in hz_warping                       *)
C20_Witness ==
    /\ call.op = "get_fbanks"
    /\ self.highest_frequency = R(6000)
    /\ self.lowest_frequency = R(0)
    /\ AboveNyquist(self)
    /\ call.warping_fn.kind = "HzWarping"
    /\ AssertionFailed

(* every element of the frequency vector of the call lies in [0, max_frequency] *)
FrequenciesInRange ==
    \A i \in DOMAIN call.frequency.at :
       /\ RLe(R(0), call.frequency.at[i])
       /\ RLe(call.frequency.at[i], MaxFrequencyOfCall)

(* C21: for every alpha > 0, every fhi_ratio in [0, 1] and every frequency  *)
(* vector with values in [0, max_frequency], the output of hz_warping is    *)
(* non-decreasing in the input frequency and every warped frequency lies in *)
(* [0, max_frequency].                                                      *)
C21_WarpedInRange ==
    (HzWarpingCase /\ FrequenciesInRange) =>
       \A i \in DOMAIN call.out.at :
          /\ RLe(R(0), call.out.at[i])
          /\ RLe(call.out.at[i], MaxFrequencyOfCall)
          /\ \A j \in DOMAIN call.out.at :
                (Front(i) = Front(j)
                   /\ RLe(call.frequency.at[<<Last(i)>>], call.frequency.at[<<Last(j)>>]))
                  => RLe(call.out.at[i], call.out.at[j])

(* the instance that differs from obj only in warping_fn and                *)
(* independent_axis: the one built without them                            *)
UnwarpedInstance(obj) ==
    [obj EXCEPT !.warping_fn = NoWarping, !.independent_axis = <<0>>]

(* what inverse(x) returns on a newly built UnwarpedInstance(obj) *)
FreshInverse(obj, x) == inverse(UnwarpedInstance(obj), NoCache, NoStats, x).out

(* C22: MelTransform.inverse always uses the pseudo-inverse of the unwarped *)
(* filterbank: for two instances that differ only in warping_fn and         *)
(* independent_axis, and after any sequence of earlier forward and inverse  *)
(* calls on either (including an inverse call made before any forward      *)
(* call), inverse(x) returns the same result for the same x.  Stated on one *)
(* instance: whatever its warping_fn, independent_axis and earlier calls,   *)
(* inverse(x) returns what a newly built instance without warping returns.  *)
C22_InverseIgnoresWarping ==
    call.op = "inverse" => call.out = FreshInverse(self, call.x)

(* the third call on an instance with a warping function and the           *)
(* independent axes (-2, 0): an inverse call after a warped forward call,   *)
(* returning a value that is not zero                                       *)
C22_Witness ==
    /\ call.op = "inverse"
    /\ self.warping_fn.kind = "HzWarping"
    /\ self.independent_axis = <<-2, 0>>
    /\ stats.calls = 3
    /\ call.before.stats.warping >= 1
    /\ ~IsErr(call.out)
    /\ call.out = FreshInverse(self, call.x)
    /\ \E i \in DOMAIN call.out.at : RLt(R(0), call.out.at[i])

====
